---------------------------- MODULE Spec2Model ----------------------------
(***************************************************************************)
(* net::HttpClient (src/src/http_client.cpp, src/includes/http_client.hpp) *)
(* as a state machine: session objects that own one libcurl easy handle,   *)
(* the once-guarded process-wide initialisation, the per-request           *)
(* reset/configure/perform cycle and the two write callbacks.              *)
(*                                                                         *)
(* Strings the code takes apart (header lines, request header names and    *)
(* values) are sequences of one-character strings; bodies are sequences of *)
(* byte values, 0 being the NUL byte.  Strings the code only passes on     *)
(* (URL, user agent, diagnostic text) are TLA+ strings.  A nullable        *)
(* pointer is <<>> (null) or <<x>> (points to x).                          *)
(***************************************************************************)
EXTENDS Integers, Sequences, FiniteSets, TLC

VARIABLES
    sess,        \* session objects: lifetime, h_, opt_, body_acc_, hdr_acc_, and the
                 \* configuration last passed in (cfg) and whether the handle had a
                 \* user agent set when that configuration replaced another (had_ua)
    once,        \* g_curl_once
    ginit_calls, \* engine: executions of curl_global_init so far
    ginit_oks,   \* engine: executions of curl_global_init that returned 0
    nalloc,      \* engine: easy handles handed out so far
    easy,        \* engine: options set on each easy handle
    released,    \* engine: curl_easy_cleanup calls per handle
    xfer,        \* the get/post call in progress and what the engine delivered in it
    result,      \* how the last finished constructor/get/post ended
    last_op      \* the last lifetime operation and its operands

vars == <<sess, once, ginit_calls, ginit_oks, nalloc, easy, released, xfer, result, last_op>>

-----------------------------------------------------------------------------
(* Bounds *)

\* session objects of the lifetime specification
NObj == 2
\* easy handles the engine hands out in one run
MaxHandles == 2
\* failed executions of curl_global_init in one run
MaxInitFail == 2
\* header-callback invocations per transfer
MaxLines == 4
\* body-callback invocations per transfer
MaxChunks == 2
\* bytes of a request body / of one body chunk
MaxBody == 2
\* caller-supplied request headers per call
MaxReqHdrs == 2
\* characters of a header line before its line ending (header specification)
MaxContent == 3

Obj == 1 .. NObj
Handles == 1 .. MaxHandles

-----------------------------------------------------------------------------
(* Characters and strings *)

CR == "\r"
LF == "\n"
CRLF == <<CR, LF>>
SP == " "
TAB == "\t"
COLON == ":"

\* "HTTP/", the prefix tested by write_header_cb
HttpPrefix == <<"H", "T", "T", "P", "/">>

\* std::string::npos, as a position no string of the model has
npos == -1

RECURSIVE FindFrom(_, _, _)
\* s.find(pat) restricted to positions >= i (0-based); npos when absent
FindFrom(s, pat, i) ==
    IF i + Len(pat) > Len(s) THEN npos
    ELSE IF SubSeq(s, i + 1, i + Len(pat)) = pat THEN i
    ELSE FindFrom(s, pat, i + 1)

\* std::string::find(pat)
Find(s, pat) == FindFrom(s, pat, 0)

\* line.rfind("HTTP/", 0) == 0 : the only start position rfind may try is 0
StartsWith(s, pat) ==
    /\ Len(s) >= Len(pat)
    /\ SubSeq(s, 1, Len(pat)) = pat

\* std::string::substr(pos) / substr(pos, n) with 0-based pos; n = npos means "to the end"
Substr(s, pos, n) ==
    IF n = npos \/ pos + n > Len(s) THEN SubSeq(s, pos + 1, Len(s))
    ELSE SubSeq(s, pos + 1, pos + n)

RECURSIVE SkipBlanks(_, _)
\* the while loop of split_header_line: advance start over ' ' and '\t'
SkipBlanks(line, start) ==
    IF start < Len(line) /\ (line[start + 1] = SP \/ line[start + 1] = TAB)
    THEN SkipBlanks(line, start + 1)
    ELSE start

\* a variant that splits at the last colon instead of the first
split_header_line_last(line) ==
    LET cols == {p \in 0 .. Len(line) - 1 : line[p + 1] = COLON}
    IN  IF cols = {} THEN <<line, <<>>>>
        ELSE LET pos == CHOOSE p \in cols : \A q \in cols : q <= p
             IN  <<Substr(line, 0, pos), Substr(line, SkipBlanks(line, pos + 1), npos)>>

\* split_header_line
split_header_line(line) ==
    LET pos == Find(line, <<COLON>>)
    IN  IF pos = npos THEN <<line, <<>>>>
        ELSE <<Substr(line, 0, pos), Substr(line, SkipBlanks(line, pos + 1), npos)>>

\* a variant that does not clear the accumulator at a status line
write_header_cb_noclear(acc, line) ==
    IF StartsWith(line, HttpPrefix) THEN acc
    ELSE IF line # <<>> /\ line # CRLF
         THEN Append(acc, split_header_line(Substr(line, 0, Find(line, CRLF))))
         ELSE acc

\* a variant that treats a blank line like a status line
write_header_cb_blankclears(acc, line) ==
    IF StartsWith(line, HttpPrefix) \/ line = CRLF THEN <<>>
    ELSE IF line # <<>>
         THEN Append(acc, split_header_line(Substr(line, 0, Find(line, CRLF))))
         ELSE acc

\* write_header_cb: the new value of self->hdr_acc_ (the callback returns size * nitems)
write_header_cb(acc, line) ==
    IF StartsWith(line, HttpPrefix) THEN <<>>
    ELSE IF line # <<>> /\ line # CRLF
         THEN Append(acc, split_header_line(Substr(line, 0, Find(line, CRLF))))
         ELSE acc

\* write_body_cb: the new value of self->body_acc_ (the callback returns size * nmemb)
write_body_cb(acc, chunk) == acc \o chunk

-----------------------------------------------------------------------------
(* HttpClient::Options and the easy handle's option set *)

\* Options::Options(): the default configuration
DefaultOptions ==
    [timeout_ms |-> 15000, follow_redirects |-> TRUE,
     user_agent |-> <<"HttpClient/1.0">>, verify_peer |-> TRUE, verify_host |-> TRUE]

\* the configuration main() builds
MainOptions ==
    [DefaultOptions EXCEPT !.timeout_ms = 10000, !.user_agent = <<"MyApp/1.0">>]

\* configurations callers pass: the default, main()'s, one with an empty user
\* agent and one with no user agent and everything switched off
OptionChoices ==
    { DefaultOptions,
      MainOptions,
      [DefaultOptions EXCEPT !.user_agent = <<"">>, !.verify_host = FALSE],
      [timeout_ms |-> 500, follow_redirects |-> FALSE, user_agent |-> <<>>,
       verify_peer |-> FALSE, verify_host |-> FALSE] }

\* an easy handle as curl_easy_init returns it and as curl_easy_reset leaves it:
\* every option at libcurl's default
curl_easy_reset ==
    [writefunction |-> "fwrite", writedata |-> 0,
     headerfunction |-> "none", headerdata |-> 0,
     timeout_ms |-> 0, followlocation |-> 0, useragent |-> <<>>,
     ssl_verifypeer |-> 1, ssl_verifyhost |-> 2,
     method |-> "GET", url |-> <<>>,
     postfields |-> <<>>, postfieldsize |-> -1,
     httpheader |-> <<>>]

\* a variant that hands the user agent to the engine whenever one is present, empty or not
SetCommonOptionsAnyAgent(e, self, opt) ==
    [e EXCEPT !.writefunction = "write_body_cb", !.writedata = self,
              !.headerfunction = "write_header_cb", !.headerdata = self,
              !.timeout_ms = opt.timeout_ms,
              !.followlocation = IF opt.follow_redirects THEN 1 ELSE 0,
              !.useragent = IF opt.user_agent # <<>> THEN opt.user_agent ELSE e.useragent,
              !.ssl_verifypeer = IF opt.verify_peer THEN 1 ELSE 0,
              !.ssl_verifyhost = IF opt.verify_host THEN 2 ELSE 0]

\* the option setting of apply_common_options after the reset: lines 51-64
SetCommonOptions(e, self, opt) ==
    LET ua == IF opt.user_agent # <<>> /\ opt.user_agent[1] # ""
              THEN opt.user_agent ELSE e.useragent
    IN  [e EXCEPT !.writefunction = "write_body_cb", !.writedata = self,
                  !.headerfunction = "write_header_cb", !.headerdata = self,
                  !.timeout_ms = opt.timeout_ms,
                  !.followlocation = IF opt.follow_redirects THEN 1 ELSE 0,
                  !.useragent = ua,
                  !.ssl_verifypeer = IF opt.verify_peer THEN 1 ELSE 0,
                  !.ssl_verifyhost = IF opt.verify_host THEN 2 ELSE 0]

\* a variant that sets the options without resetting the handle first
apply_common_options_noreset(e, self, opt) == SetCommonOptions(e, self, opt)

\* apply_common_options on a handle whose options are e, for the session self
apply_common_options(e, self, opt) == SetCommonOptions(curl_easy_reset, self, opt)

\* static_cast<long>(data.size()): the value itself up to LONG_MAX, wrapped above it;
\* LONG_MAX is that of a 32-bit long, the narrowest long the code is built with
ToLong(n) == IF n <= 2147483647 THEN n ELSE n - 2147483647 - 2147483647 - 2

\* a variant that leaves the length to the engine (CURLOPT_POSTFIELDSIZE unset)
SetPostFieldsNoSize(e, data) == [e EXCEPT !.postfields = <<data>>]

\* post: CURLOPT_POSTFIELDS with data.data(), CURLOPT_POSTFIELDSIZE with data.size()
SetPostFields(e, data) ==
    [e EXCEPT !.postfields = <<data>>, !.postfieldsize = ToLong(Len(data))]

RECURSIVE BuildSlist(_)
\* the loop of get/post over the caller's headers: sl.add(k + ": " + v), each
\* curl_slist_append linking the new string at the end of the list
BuildSlist(headers) ==
    IF headers = <<>> THEN <<>>
    ELSE <<headers[1][1] \o <<COLON, SP>> \o headers[1][2]>> \o BuildSlist(Tail(headers))

\* if (sl.ptr) curl_easy_setopt(h_, CURLOPT_HTTPHEADER, sl.ptr)
SetHttpHeader(e, sl) ==
    IF sl # <<>> THEN [e EXCEPT !.httpheader = <<[items |-> sl, freed |-> FALSE]>>] ELSE e

\* Slist::~Slist: curl_slist_free_all(ptr) when ptr is set; a handle that still
\* holds the pointer then refers to released memory
SlistDtor(e, sl) ==
    IF sl # <<>> /\ e.httpheader # <<>>
    THEN [e EXCEPT !.httpheader = <<[items |-> e.httpheader[1].items, freed |-> TRUE]>>]
    ELSE e

RECURSIVE CStr(_)
\* the bytes of a C string: up to, not including, the first NUL
CStr(d) == IF d = <<>> \/ d[1] = 0 THEN <<>> ELSE <<d[1]>> \o CStr(Tail(d))

\* the request body the engine transmits for the options e: for a POST the first
\* postfieldsize bytes at postfields, or strlen(postfields) bytes when the size is -1
SentBody(e) ==
    IF e.method # "POST" \/ e.postfields = <<>> THEN <<>>
    ELSE IF e.postfieldsize = -1 THEN CStr(e.postfields[1])
    ELSE SubSeq(e.postfields[1], 1, e.postfieldsize)

\* the custom request header lines the engine transmits for the options e
SentHeaders(e) == IF e.httpheader = <<>> THEN <<>> ELSE e.httpheader[1].items

\* curl_easy_strerror for the CURLcode values the engine reports in the model
curl_easy_strerror(res) ==
    IF res = 6 THEN "Couldn't resolve host name"
    ELSE IF res = 28 THEN "Timeout was reached"
    ELSE "Unknown error"

\* CURLcode values of a failed curl_easy_perform
FailCodes == {6, 28}

\* response codes curl_easy_getinfo reports after a successful transfer
StatusCodes == {200, 404}

-----------------------------------------------------------------------------
(* State *)

\* the storage of a session object outside its lifetime
NoSession ==
    [life |-> "none", h_ |-> 0, opt_ |-> DefaultOptions,
     body_acc_ |-> <<>>, hdr_acc_ |-> <<>>, cfg |-> DefaultOptions,
     had_ua |-> FALSE]

\* no get/post in progress
NoXfer ==
    [active |-> FALSE, obj |-> 0, method |-> "", url |-> "", data |-> <<>>,
     headers |-> <<>>, lines |-> <<>>, body |-> <<>>, ncb |-> 0,
     prev |-> "none", residue |-> FALSE, stale |-> FALSE]

\* no constructor or request has finished yet / a request is in progress
NoResult ==
    [op |-> "none", kind |-> "none", what |-> <<>>, status |-> 0, body |-> <<>>,
     headers |-> <<>>, code_read |-> FALSE, res |-> 0, of |-> NoXfer]

\* no lifetime operation yet
NoOp == [op |-> "none", dst |-> 0, src |-> 0, h |-> 0]

\* the state at process start: no session, g_curl_once not yet run, no handle
Init ==
    /\ sess = [i \in Obj |-> NoSession]
    /\ once = "idle"
    /\ ginit_calls = 0
    /\ ginit_oks = 0
    /\ nalloc = 0
    /\ easy = [h \in Handles |-> curl_easy_reset]
    /\ released = [h \in Handles |-> 0]
    /\ xfer = NoXfer
    /\ result = NoResult
    /\ last_op = NoOp

\* session i exists and no call on it is in progress
Idle(i) ==
    /\ sess[i].life = "alive"
    /\ ~(xfer.active /\ xfer.obj = i)

\* curl_easy_cleanup(h): one more release of handle h
curl_easy_cleanup(rel, h) == [rel EXCEPT ![h] = @ + 1]

-----------------------------------------------------------------------------
(* HttpClient::HttpClient(Options) *)

\* the constructor up to its call of global_init_once: opt_(std::move(opt)), h_ = nullptr
CtorBegin(i, opt) ==
    /\ sess[i].life = "none"
    /\ sess' = [sess EXCEPT ![i] = [NoSession EXCEPT !.life = "ctor_once", !.opt_ = opt, !.cfg = opt]]
    /\ UNCHANGED <<once, ginit_calls, ginit_oks, nalloc, easy, released, xfer, result, last_op>>

\* a call_once that lets a caller through while another one is still running the function
CallOnceNoWait(i) ==
    /\ sess[i].life = "ctor_once"
    /\ IF once = "idle"
       THEN /\ once' = "active"
            /\ sess' = [sess EXCEPT ![i].life = "ctor_ginit"]
       ELSE /\ once' = once
            /\ sess' = [sess EXCEPT ![i].life = "ctor_einit"]
    /\ UNCHANGED <<ginit_calls, ginit_oks, nalloc, easy, released, xfer, result, last_op>>

\* std::call_once(g_curl_once, ...): the first caller becomes the one that runs the
\* function, a caller that finds it running waits, a caller that finds it done returns
CallOnce(i) ==
    /\ sess[i].life = "ctor_once"
    /\ once # "active"
    /\ IF once = "idle"
       THEN /\ once' = "active"
            /\ sess' = [sess EXCEPT ![i].life = "ctor_ginit"]
       ELSE /\ once' = once
            /\ sess' = [sess EXCEPT ![i].life = "ctor_einit"]
    /\ UNCHANGED <<ginit_calls, ginit_oks, nalloc, easy, released, xfer, result, last_op>>

\* the function run under g_curl_once: curl_global_init returns; 0 ends the call_once
\* with the flag set, anything else throws HttpError through call_once, which leaves
\* the flag unset, and through the constructor, which produces no session
GlobalInit(i, ok) ==
    /\ sess[i].life = "ctor_ginit"
    /\ ok \/ ginit_calls - ginit_oks < MaxInitFail
    /\ ginit_calls' = ginit_calls + 1
    /\ IF ok
       THEN /\ ginit_oks' = ginit_oks + 1
            /\ once' = "done"
            /\ sess' = [sess EXCEPT ![i].life = "ctor_einit"]
            /\ UNCHANGED result
       ELSE /\ ginit_oks' = ginit_oks
            /\ once' = "idle"
            /\ sess' = [sess EXCEPT ![i] = NoSession]
            /\ result' = [NoResult EXCEPT !.op = "ctor", !.kind = "HttpError",
                                          !.what = <<"curl_global_init failed">>]
    /\ UNCHANGED <<nalloc, easy, released, xfer, last_op>>

\* h_ = curl_easy_init(); a null handle throws HttpError and produces no session,
\* otherwise apply_common_options() and the session exists
EasyInit(i, ok) ==
    /\ sess[i].life = "ctor_einit"
    /\ IF ok
       THEN /\ nalloc < MaxHandles
            /\ nalloc' = nalloc + 1
            /\ easy' = [easy EXCEPT ![nalloc + 1] =
                            apply_common_options(curl_easy_reset, i, sess[i].opt_)]
            /\ sess' = [sess EXCEPT ![i].life = "alive", ![i].h_ = nalloc + 1]
            /\ result' = [NoResult EXCEPT !.op = "ctor", !.kind = "session"]
            /\ last_op' = [op |-> "construct", dst |-> i, src |-> 0, h |-> nalloc + 1]
       ELSE /\ sess' = [sess EXCEPT ![i] = NoSession]
            /\ result' = [NoResult EXCEPT !.op = "ctor", !.kind = "HttpError",
                                          !.what = <<"curl_easy_init failed">>]
            /\ UNCHANGED <<nalloc, easy, last_op>>
    /\ UNCHANGED <<once, ginit_calls, ginit_oks, released, xfer>>

-----------------------------------------------------------------------------
(* Destructor and moves *)

\* HttpClient::~HttpClient
Destroy(i) ==
    /\ Idle(i)
    /\ released' = IF sess[i].h_ # 0 THEN curl_easy_cleanup(released, sess[i].h_) ELSE released
    /\ sess' = [sess EXCEPT ![i] = NoSession]
    /\ last_op' = [op |-> "destroy", dst |-> i, src |-> 0, h |-> sess[i].h_]
    /\ UNCHANGED <<once, ginit_calls, ginit_oks, nalloc, easy, xfer, result>>

\* a move constructor that leaves the source's handle in place
MoveCtorKeepSource(i, j) ==
    /\ i # j
    /\ sess[i].life = "none"
    /\ Idle(j)
    /\ sess' = [sess EXCEPT ![i] = [NoSession EXCEPT !.life = "alive", !.h_ = sess[j].h_,
                                                     !.opt_ = sess[j].opt_, !.cfg = sess[j].cfg,
                                                     !.had_ua = sess[j].had_ua]]
    /\ last_op' = [op |-> "move_construct", dst |-> i, src |-> j, h |-> sess[j].h_]
    /\ UNCHANGED <<once, ginit_calls, ginit_oks, nalloc, easy, released, xfer, result>>

\* HttpClient::HttpClient(HttpClient&& other): h_(other.h_), opt_(other.opt_),
\* the accumulators default-constructed, other.h_ = nullptr
MoveCtor(i, j) ==
    /\ i # j
    /\ sess[i].life = "none"
    /\ Idle(j)
    /\ sess' = [sess EXCEPT ![i] = [NoSession EXCEPT !.life = "alive", !.h_ = sess[j].h_,
                                                     !.opt_ = sess[j].opt_, !.cfg = sess[j].cfg,
                                                     !.had_ua = sess[j].had_ua],
                            ![j].h_ = 0]
    /\ last_op' = [op |-> "move_construct", dst |-> i, src |-> j, h |-> sess[j].h_]
    /\ UNCHANGED <<once, ginit_calls, ginit_oks, nalloc, easy, released, xfer, result>>

\* HttpClient::operator=(HttpClient&& other): nothing on self-assignment; otherwise
\* release the own handle, take other's handle and options, other.h_ = nullptr
MoveAssign(i, j) ==
    /\ Idle(i)
    /\ Idle(j)
    /\ IF i # j
       THEN /\ released' = IF sess[i].h_ # 0 THEN curl_easy_cleanup(released, sess[i].h_)
                           ELSE released
            /\ sess' = [sess EXCEPT ![i].h_ = sess[j].h_, ![i].opt_ = sess[j].opt_,
                                    ![i].cfg = sess[j].cfg, ![i].had_ua = sess[j].had_ua,
                                    ![j].h_ = 0]
       ELSE UNCHANGED <<released, sess>>
    /\ last_op' = [op |-> "move_assign", dst |-> i, src |-> j, h |-> sess[j].h_]
    /\ UNCHANGED <<once, ginit_calls, ginit_oks, nalloc, easy, xfer, result>>

-----------------------------------------------------------------------------
(* set_options, get, post and the transfer *)

\* HttpClient::set_options
SetOptions(i, opt) ==
    /\ Idle(i)
    /\ sess[i].h_ # 0
    /\ sess' = [sess EXCEPT ![i].opt_ = opt, ![i].cfg = opt,
                            ![i].had_ua = easy[sess[i].h_].useragent # <<>>]
    /\ easy' = [easy EXCEPT ![sess[i].h_] = apply_common_options(@, i, opt)]
    /\ UNCHANGED <<once, ginit_calls, ginit_oks, nalloc, released, xfer, result, last_op>>

\* a variant of the first two statements of perform_with_headers_and_body that
\* clears the body accumulator only
ClearBodyOnly(s) == [s EXCEPT !.body_acc_ = <<>>]

\* perform_with_headers_and_body, before the transfer: body_acc_.clear(); hdr_acc_.clear()
ClearAccumulators(s) == [s EXCEPT !.body_acc_ = <<>>, !.hdr_acc_ = <<>>]

\* what get and post share up to the start of curl_easy_perform; e is the handle's
\* option set after the method-specific options
StartTransfer(i, e, method, url, data, headers) ==
    /\ easy' = [easy EXCEPT ![sess[i].h_] = SetHttpHeader(e, BuildSlist(headers))]
    /\ sess' = [sess EXCEPT ![i] = ClearAccumulators(@)]
    /\ xfer' = [active |-> TRUE, obj |-> i, method |-> method, url |-> url, data |-> data,
                headers |-> headers, lines |-> <<>>, body |-> <<>>, ncb |-> 0,
                prev |-> IF result.op = "request" THEN result.kind ELSE "none",
                residue |-> sess[i].body_acc_ # <<>> \/ sess[i].hdr_acc_ # <<>>,
                stale |-> LET e0 == easy[sess[i].h_]
                          IN  /\ e0.postfields # <<>>
                              /\ e0.httpheader # <<>>
                              /\ e0.httpheader[1].freed]
    /\ result' = NoResult
    /\ UNCHANGED <<once, ginit_calls, ginit_oks, nalloc, released, last_op>>

\* HttpClient::get up to the start of the transfer; a session whose handle was
\* moved away (h_ = nullptr) has nothing to run a call on
Get(i, url, headers) ==
    /\ Idle(i)
    /\ ~xfer.active
    /\ sess[i].h_ # 0
    /\ LET e1 == apply_common_options(easy[sess[i].h_], i, sess[i].opt_)
           e2 == [e1 EXCEPT !.method = "GET"]
           e3 == [e2 EXCEPT !.url = <<url>>]
       IN  StartTransfer(i, e3, "GET", url, <<>>, headers)

\* HttpClient::post up to the start of the transfer
Post(i, url, data, headers) ==
    /\ Idle(i)
    /\ ~xfer.active
    /\ sess[i].h_ # 0
    /\ LET e1 == apply_common_options(easy[sess[i].h_], i, sess[i].opt_)
           e2 == [e1 EXCEPT !.method = "POST"]
           e3 == [e2 EXCEPT !.url = <<url>>]
           e4 == SetPostFields(e3, data)
       IN  StartTransfer(i, e4, "POST", url, data, headers)

\* the engine, inside curl_easy_perform, hands body bytes to CURLOPT_WRITEFUNCTION
\* with CURLOPT_WRITEDATA as userdata
WriteBody(i, chunk) ==
    /\ xfer.active /\ xfer.obj = i
    /\ xfer.ncb < MaxChunks
    /\ LET e == easy[sess[i].h_]
       IN  /\ e.writefunction = "write_body_cb"
           /\ sess' = [sess EXCEPT ![e.writedata].body_acc_ = write_body_cb(@, chunk)]
    /\ xfer' = [xfer EXCEPT !.body = @ \o chunk, !.ncb = @ + 1]
    /\ UNCHANGED <<once, ginit_calls, ginit_oks, nalloc, easy, released, result, last_op>>

\* the engine, inside curl_easy_perform, hands one header line to
\* CURLOPT_HEADERFUNCTION with CURLOPT_HEADERDATA as userdata
WriteHeader(i, line) ==
    /\ xfer.active /\ xfer.obj = i
    /\ Len(xfer.lines) < MaxLines
    /\ LET e == easy[sess[i].h_]
       IN  /\ e.headerfunction = "write_header_cb"
           /\ sess' = [sess EXCEPT ![e.headerdata].hdr_acc_ = write_header_cb(@, line)]
    /\ xfer' = [xfer EXCEPT !.lines = Append(@, line)]
    /\ UNCHANGED <<once, ginit_calls, ginit_oks, nalloc, easy, released, result, last_op>>

\* what std::move may leave in the moved-from accumulator: a valid but unspecified
\* value, empty or the old contents
MovedFrom(v) == {<<>>, v}

\* a variant of the failure path that hands out what was accumulated so far
PerformFailPartial(i, res) ==
    /\ xfer.active /\ xfer.obj = i
    /\ result' = [op |-> "request", kind |-> "Response",
                  what |-> <<"curl_easy_perform failed: ", curl_easy_strerror(res)>>,
                  status |-> 0, body |-> sess[i].body_acc_, headers |-> sess[i].hdr_acc_,
                  code_read |-> FALSE, res |-> res, of |-> xfer]
    /\ easy' = [easy EXCEPT ![sess[i].h_] = SlistDtor(@, BuildSlist(xfer.headers))]
    /\ xfer' = NoXfer
    /\ UNCHANGED <<sess, once, ginit_calls, ginit_oks, nalloc, released, last_op>>

\* curl_easy_perform returns res != CURLE_OK: perform_with_headers_and_body throws
\* HttpError with the engine's text; unwinding get/post runs ~Slist
PerformFail(i, res) ==
    /\ xfer.active /\ xfer.obj = i
    /\ result' = [op |-> "request", kind |-> "HttpError",
                  what |-> <<"curl_easy_perform failed: ", curl_easy_strerror(res)>>,
                  status |-> 0, body |-> <<>>, headers |-> <<>>,
                  code_read |-> FALSE, res |-> res, of |-> xfer]
    /\ easy' = [easy EXCEPT ![sess[i].h_] = SlistDtor(@, BuildSlist(xfer.headers))]
    /\ xfer' = NoXfer
    /\ UNCHANGED <<sess, once, ginit_calls, ginit_oks, nalloc, released, last_op>>

\* curl_easy_perform returns CURLE_OK: the status code is read from the handle, the
\* accumulators are moved into the Response, get/post returns and runs ~Slist
PerformOK(i, code) ==
    /\ xfer.active /\ xfer.obj = i
    /\ result' = [op |-> "request", kind |-> "Response", what |-> <<>>,
                  status |-> code, body |-> sess[i].body_acc_, headers |-> sess[i].hdr_acc_,
                  code_read |-> TRUE, res |-> 0, of |-> xfer]
    /\ \E b \in MovedFrom(sess[i].body_acc_), hd \in MovedFrom(sess[i].hdr_acc_) :
           sess' = [sess EXCEPT ![i].body_acc_ = b, ![i].hdr_acc_ = hd]
    /\ easy' = [easy EXCEPT ![sess[i].h_] = SlistDtor(@, BuildSlist(xfer.headers))]
    /\ xfer' = NoXfer
    /\ UNCHANGED <<once, ginit_calls, ginit_oks, nalloc, released, last_op>>

-----------------------------------------------------------------------------
(* Inputs *)

\* "HTTP/1\r\n": a status line
StatusLine == HttpPrefix \o <<"1">> \o CRLF
\* "A:b\r\n"
HeaderA == <<"A", COLON, "b">> \o CRLF
\* "B: c\r\n"
HeaderB == <<"B", COLON, SP, "c">> \o CRLF

\* header lines the engine delivers in the request specifications
SampleLines == {StatusLine, HeaderA, HeaderB, CRLF}

\* body chunks the engine delivers: a chunk with an embedded NUL byte
SampleChunks == {<<0, 1>>}

RECURSIVE SeqsUpTo(_, _)
\* all sequences over S of length at most n
SeqsUpTo(S, n) ==
    IF n = 0 THEN {<<>>}
    ELSE LET shorter == SeqsUpTo(S, n - 1)
         IN  shorter \cup {Append(q, x) : q \in shorter, x \in S}

\* request bodies: every byte string over {NUL, 1} up to MaxBody bytes
Bodies == SeqsUpTo({0, 1}, MaxBody)

\* request header pairs callers pass; the same name may be passed twice
ReqPairs == {<<<<"A">>, <<"j">>>>, <<<<"A">>, <<"k">>>>}

\* request header lists up to MaxReqHdrs pairs
ReqHeaderLists == SeqsUpTo(ReqPairs, MaxReqHdrs)

Urls == {"https://httpbin.org/get", "https://httpbin.org/post"}

-----------------------------------------------------------------------------
(* Specifications *)

\* one session: construction, then get/post calls with everything the engine may
\* deliver through the two callbacks before it reports success or failure
Next ==
    \/ CtorBegin(1, MainOptions)
    \/ CallOnce(1)
    \/ GlobalInit(1, TRUE)
    \/ EasyInit(1, TRUE)
    \/ Get(1, "https://httpbin.org/get", <<>>)
    \/ Post(1, "https://httpbin.org/post", <<1, 0>>, <<>>)
    \/ \E chunk \in SampleChunks : WriteBody(1, chunk)
    \/ \E line \in SampleLines : WriteHeader(1, line)
    \/ \E code \in StatusCodes : PerformOK(1, code)
    \/ \E res \in FailCodes : PerformFail(1, res)

Spec == Init /\ [][Next]_vars

\* one session: construction with any configuration, reconfiguration, and get/post
\* calls with every method, URL, body and header list of the input sets; the
\* response side (what the callbacks receive) is left to Spec
NextReq ==
    \/ \E opt \in OptionChoices : CtorBegin(1, opt)
    \/ CallOnce(1)
    \/ GlobalInit(1, TRUE)
    \/ EasyInit(1, TRUE)
    \/ \E opt \in OptionChoices : SetOptions(1, opt)
    \/ \E url \in Urls, hs \in ReqHeaderLists : Get(1, url, hs)
    \/ \E d \in Bodies, hs \in SeqsUpTo(ReqPairs, 1) : Post(1, "https://httpbin.org/post", d, hs)
    \/ PerformOK(1, 200)
    \/ PerformFail(1, 28)

SpecReq == Init /\ [][NextReq]_vars

\* sessions constructed concurrently (each by its own thread, so the steps of
\* different constructors interleave), moved and destroyed; curl_global_init and
\* curl_easy_init may fail
NextLife ==
    \/ \E i \in Obj : CtorBegin(i, DefaultOptions)
    \/ \E i \in Obj : CallOnce(i)
    \/ \E i \in Obj, ok \in BOOLEAN : GlobalInit(i, ok)
    \/ \E i \in Obj, ok \in BOOLEAN : EasyInit(i, ok)
    \/ \E i \in Obj : Destroy(i)
    \/ \E i \in Obj, j \in Obj : MoveCtor(i, j)
    \/ \E i \in Obj, j \in Obj : MoveAssign(i, j)

SpecLife == Init /\ [][NextLife]_vars

\* characters of the header lines of the header specification
Alphabet == {"a", COLON, SP, TAB, CR}

\* lines that look like, or almost like, a status line
StatusSamples ==
    { HttpPrefix,
      StatusLine,
      <<"H", "T", "T", "P">>,
      <<"H", "T", "T", "P", COLON, "/">> \o CRLF,
      <<"a">> \o HttpPrefix \o CRLF }

\* every line of at most MaxContent characters, with and without its line ending
\* (the empty buffer and the bare line ending among them), and the status samples;
\* the line ending is "\r\n", as write_header_cb states of its input
HeaderLines ==
    LET contents == SeqsUpTo(Alphabet, MaxContent)
    IN  contents \cup {c \o CRLF : c \in contents} \cup StatusSamples

\* header lines delivered before the line under test
PriorLines == {<<>>, <<HeaderA>>}

\* session 1 in the middle of the transfer of get("https://httpbin.org/get"), the header
\* callback having received nothing yet or the one line "A:b\r\n"
InitHeader ==
    /\ \E prior \in PriorLines :
           /\ sess = [i \in Obj |->
                        IF i = 1
                        THEN [life |-> "alive", h_ |-> 1, opt_ |-> MainOptions,
                              body_acc_ |-> <<>>,
                              hdr_acc_ |-> IF prior = <<>> THEN <<>>
                                           ELSE << <<<<"A">>, <<"b">>>> >>,
                              cfg |-> MainOptions, had_ua |-> FALSE]
                        ELSE NoSession]
           /\ xfer = [NoXfer EXCEPT !.active = TRUE, !.obj = 1, !.method = "GET",
                                    !.url = "https://httpbin.org/get", !.lines = prior]
    /\ once = "done"
    /\ ginit_calls = 1
    /\ ginit_oks = 1
    /\ nalloc = 1
    /\ easy = [h \in Handles |->
                 IF h = 1
                 THEN [apply_common_options(curl_easy_reset, 1, MainOptions)
                          EXCEPT !.url = <<"https://httpbin.org/get">>]
                 ELSE curl_easy_reset]
    /\ released = [h \in Handles |-> 0]
    /\ result = NoResult
    /\ last_op = [op |-> "construct", dst |-> 1, src |-> 0, h |-> 1]

\* the header callback applied once to every line of HeaderLines
NextHeader ==
    \E line \in HeaderLines : xfer.lines \in PriorLines /\ WriteHeader(1, line)

SpecHeader == InitHeader /\ [][NextHeader]_vars

-----------------------------------------------------------------------------
(* What the claims speak of, stated without the callbacks' code *)

\* a line that begins with the five characters H T T P /
IsStatusLine(l) == Len(l) >= 5 /\ \A k \in 1 .. 5 : l[k] = HttpPrefix[k]

\* a section terminator: nothing but the line ending, or an empty buffer
IsBlankLine(l) == l = <<>> \/ l = CRLF

\* a line without its line ending (line 85: each header line comes with \r\n)
Content(l) ==
    IF Len(l) >= 2 /\ l[Len(l) - 1] = CR /\ l[Len(l)] = LF
    THEN SubSeq(l, 1, Len(l) - 2) ELSE l

\* the lines after the last status line; all of them when there is no status line
FinalSection(lines) ==
    LET st == {k \in 1 .. Len(lines) : IsStatusLine(lines[k])}
        last == IF st = {} THEN 0 ELSE CHOOSE k \in st : \A m \in st : m <= k
    IN  SubSeq(lines, last + 1, Len(lines))

RECURSIVE ParsedPairs(_)
\* the parsed pairs of the non-blank lines, in order
ParsedPairs(lines) ==
    IF lines = <<>> THEN <<>>
    ELSE IF IsBlankLine(lines[1]) THEN ParsedPairs(Tail(lines))
    ELSE <<split_header_line(Content(lines[1]))>> \o ParsedPairs(Tail(lines))

\* a get/post has returned a Response
Returned == result.op = "request" /\ result.kind = "Response"

-----------------------------------------------------------------------------
(* Claims checked under Spec *)

\* C1: the headers of a returned Response are exactly the parsed pairs of the
\* non-blank lines delivered after the last line starting with "HTTP/", in delivery
\* order; no pair of an earlier section is present.
C1_FinalSectionHeaders ==
    Returned => result.headers = ParsedPairs(FinalSection(result.of.lines))

\* C1 witness: a redirect chain: status, header, status, header; only the last survives
C1_Witness ==
    /\ Returned
    /\ result.of.lines = <<StatusLine, HeaderA, StatusLine, HeaderB>>
    /\ result.headers = <<<<<<"B">>, <<"c">>>>>>

\* C2: both accumulators are empty when the transfer of a call starts, and a returned
\* Response holds exactly the body bytes, and only header pairs, that the callbacks
\* delivered during that same call.
C2_NoResidue ==
    /\ (xfer.active /\ xfer.lines = <<>> /\ xfer.ncb = 0)
           => (sess[xfer.obj].body_acc_ = <<>> /\ sess[xfer.obj].hdr_acc_ = <<>>)
    /\ Returned =>
           /\ result.body = result.of.body
           /\ \A k \in 1 .. Len(result.headers) :
                  \E m \in 1 .. Len(result.of.lines) :
                      /\ ~IsBlankLine(result.of.lines[m])
                      /\ ~IsStatusLine(result.of.lines[m])
                      /\ result.headers[k] = split_header_line(Content(result.of.lines[m]))

\* C2 witness: a call that began with residue of a failed call in the accumulators
\* has returned a Response made of its own lines and bytes
C2_Witness ==
    /\ Returned
    /\ result.of.prev = "HttpError"
    /\ result.of.residue
    /\ result.of.lines = <<HeaderB>>
    /\ result.headers = <<<<<<"B">>, <<"c">>>>>>
    /\ result.body = <<0, 1>>

\* C3: when the engine reports a failed transfer the call ends with HttpError carrying
\* the engine's diagnostic text, no Response is produced, whatever was delivered, the
\* status code is not read, and the session still owns its handle and can be called again.
C3_FailureAllOrNothing ==
    (result.op = "request" /\ result.res # 0) =>
        /\ result.kind = "HttpError"
        /\ Len(result.what) = 2
        /\ result.what[2] = curl_easy_strerror(result.res)
        /\ result.body = <<>> /\ result.headers = <<>> /\ result.status = 0
        /\ ~result.code_read
        /\ sess[result.of.obj].life = "alive"
        /\ sess[result.of.obj].h_ # 0
        /\ released[sess[result.of.obj].h_] = 0
        /\ Idle(result.of.obj) /\ ~xfer.active

\* C3 witness: a call failed after header lines and body bytes had been delivered, and
\* the next call on the same session returned a Response
C3_Witness ==
    /\ Returned
    /\ result.of.prev = "HttpError"
    /\ result.of.residue
    /\ result.status = 200

-----------------------------------------------------------------------------
(* Claims checked under SpecReq *)

\* the options of the handle the call in progress runs on
XferEasy == easy[sess[xfer.obj].h_]

\* C6: every transfer runs with exactly the configuration last passed to the
\* constructor or to set_options: timeout, redirect policy, peer and host
\* verification, callbacks bound to this session, and a user agent only if that
\* configuration has a non-empty one.
C6_CurrentConfiguration ==
    xfer.active =>
        LET e == XferEasy
            c == sess[xfer.obj].cfg
        IN  /\ e.timeout_ms = c.timeout_ms
            /\ e.followlocation = (IF c.follow_redirects THEN 1 ELSE 0)
            /\ e.ssl_verifypeer = (IF c.verify_peer THEN 1 ELSE 0)
            /\ e.ssl_verifyhost = (IF c.verify_host THEN 2 ELSE 0)
            /\ e.useragent \in {<<>>, c.user_agent}
            /\ (e.useragent = <<>>) <=> (c.user_agent \in {<<>>, <<"">>})
            /\ e.writefunction = "write_body_cb" /\ e.writedata = xfer.obj
            /\ e.headerfunction = "write_header_cb" /\ e.headerdata = xfer.obj

\* C6 witness: a transfer under a configuration without user agent that replaced,
\* through set_options, one whose user agent was set on the handle
C6_Witness ==
    /\ xfer.active
    /\ sess[xfer.obj].had_ua
    /\ sess[xfer.obj].cfg.user_agent = <<>>
    /\ ~sess[xfer.obj].cfg.verify_peer
    /\ XferEasy.useragent = <<>>
    /\ XferEasy.timeout_ms = 500

\* C7: the body length post hands to the engine is the exact byte length of the
\* caller's body, NUL bytes and the empty body included, so the engine transmits the
\* whole byte sequence.
C7_ExplicitBodyLength ==
    (xfer.active /\ xfer.method = "POST") =>
        /\ XferEasy.method = "POST"
        /\ XferEasy.postfieldsize = Len(xfer.data)
        /\ SentBody(XferEasy) = xfer.data

\* C7 witness: a post of a body that starts with a NUL byte
C7_Witness ==
    /\ xfer.active /\ xfer.method = "POST"
    /\ xfer.data = <<0, 1>>
    /\ SentBody(XferEasy) = <<0, 1>>

\* C10: every transfer runs with the method, URL, body and header list of the current
\* call, the header list being the caller's pairs as "name: value" in caller order,
\* duplicates kept; nothing of an earlier call is in effect, and the handle never
\* refers to a header list that was released at the end of an earlier call.
C10_CurrentRequestOnly ==
    xfer.active =>
        LET e == XferEasy
            sent == SentHeaders(e)
        IN  /\ e.method = xfer.method
            /\ e.url = <<xfer.url>>
            /\ SentBody(e) = xfer.data
            /\ Len(sent) = Len(xfer.headers)
            /\ \A k \in 1 .. Len(sent) :
                   sent[k] = xfer.headers[k][1] \o <<COLON, SP>> \o xfer.headers[k][2]
            /\ (e.httpheader # <<>>) => ~e.httpheader[1].freed

\* C10 witness: a get without headers on a handle that, when the call began, still
\* carried the body of an earlier post and the pointer to its released header list
C10_Witness ==
    /\ xfer.active /\ xfer.method = "GET" /\ xfer.headers = <<>>
    /\ xfer.stale
    /\ SentBody(XferEasy) = <<>>
    /\ SentHeaders(XferEasy) = <<>>

-----------------------------------------------------------------------------
(* Claims checked under SpecLife *)

\* the sessions that own handle h
Owners(h) == {i \in Obj : sess[i].life = "alive" /\ sess[i].h_ = h}

\* the sessions whose constructor is executing curl_global_init
InGlobalInit == {i \in Obj : sess[i].life = "ctor_ginit"}

C5_SingleOwnerReleasedOnce ==
    /\ \A h \in Handles :
           IF h <= nalloc
           THEN Cardinality(Owners(h)) + released[h] = 1
           ELSE Owners(h) = {} /\ released[h] = 0
    /\ \A i \in Obj : sess[i].life # "alive" => sess[i].h_ = 0
    /\ last_op.op \in {"move_construct", "move_assign"} =>
           /\ sess[last_op.dst].h_ = last_op.h
           /\ last_op.dst # last_op.src => sess[last_op.src].h_ = 0

\* C5 witness: a move-assignment onto a session that owned a handle: the replaced
\* handle is released, the target owns the source's handle, the source owns none
C5_Witness ==
    /\ last_op = [op |-> "move_assign", dst |-> 1, src |-> 2, h |-> 2]
    /\ released[1] = 1 /\ released[2] = 0
    /\ sess[1].h_ = 2
    /\ sess[2].life = "alive" /\ sess[2].h_ = 0

-----------------------------------------------------------------------------
(* Claims checked under SpecHeader *)

\* name and value are the two sides of the first colon of c, the value without its
\* leading spaces and tabs; without a colon the name is c and the value is empty
SplitsAs(c, name, value) ==
    IF \A k \in 1 .. Len(c) : c[k] # COLON
    THEN name = c /\ value = <<>>
    ELSE \E k \in 1 .. Len(c) :
           /\ c[k] = COLON
           /\ \A j \in 1 .. k - 1 : c[j] # COLON
           /\ name = SubSeq(c, 1, k - 1)
           /\ \E m \in k .. Len(c) :
                  /\ \A j \in k + 1 .. m : c[j] \in {SP, TAB}
                  /\ m < Len(c) => c[m + 1] \notin {SP, TAB}
                  /\ value = SubSeq(c, m + 1, Len(c))

\* the step is one invocation of the header callback
HeaderStep == Len(xfer'.lines) = Len(xfer.lines) + 1

\* the line that invocation carried
StepLine == xfer'.lines[Len(xfer'.lines)]

\* C8: for a non-blank line that is not a status line the header callback appends
\* exactly one pair: name before the first colon, value after it without leading
\* spaces and tabs, (whole line, empty) without a colon; the line ending is in neither.
C8_SplitAtFirstColon ==
    [][ (HeaderStep /\ ~IsBlankLine(StepLine) /\ ~IsStatusLine(StepLine)) =>
            LET before == sess[1].hdr_acc_
                after == sess'[1].hdr_acc_
            IN  /\ Len(after) = Len(before) + 1
                /\ SubSeq(after, 1, Len(before)) = before
                /\ SplitsAs(Content(StepLine), after[Len(after)][1], after[Len(after)][2])
      ]_vars

\* C8 witness: "a::\r\n" was appended to an accumulator of one pair as (a, :)
C8_Witness ==
    /\ xfer.lines = <<HeaderA, <<"a", COLON, COLON>> \o CRLF>>
    /\ sess[1].hdr_acc_ = << <<<<"A">>, <<"b">>>>, <<<<"a">>, <<COLON>>>> >>

\* C9: a header-callback invocation carrying a blank line leaves the header
\* accumulator unchanged.
C9_BlankLineIgnored ==
    [][ (HeaderStep /\ IsBlankLine(StepLine)) => sess'[1].hdr_acc_ = sess[1].hdr_acc_ ]_vars

\* C9 witness: the bare line ending arrived after "A:b\r\n" and the pair is still there
C9_Witness ==
    /\ xfer.lines = <<HeaderA, CRLF>>
    /\ sess[1].hdr_acc_ = << <<<<"A">>, <<"b">>>> >>

=============================================================================
